---- MODULE Spec2Model ----
(***************************************************************************)
(* Pizza Bot (src/main.py): the pricing function order_pizza and the       *)
(* session state machine of main().                                        *)
(*                                                                         *)
(* Strings that the program inspects (size, console lines) are sequences   *)
(* of one-character strings, so that str.lower() and str.strip() are       *)
(* computed character by character.  Money is held in cents; the float     *)
(* arithmetic of order_pizza is carried out in mills (1/1000 dollar) and   *)
(* round(price, 2) rounds mills to cents.                                  *)
(***************************************************************************)
EXTENDS Integers, Sequences, FiniteSets, TLC

VARIABLES
    pc,         \* position of main(): which blocking call comes next
    rawName,    \* raw_name_input (line 92)
    name,       \* name (lines 98-107)
    messages,   \* messages (line 111), the transcript
    orders,     \* orders (line 115)
    total,      \* total (line 116), in cents
    requests,   \* number of chat completion requests issued by the loop
    summary,    \* what the final summary printed: <<>> until it is printed
    call,       \* arguments of the latest order_pizza call
    ret,        \* what the latest order_pizza call returned or raised
    lastLine,   \* the line most recently returned by input(), untrimmed
    event,      \* what the latest step did
    request     \* the latest chat completion request of the negotiation loop

vars == <<pc, rawName, name, messages, orders, total, requests, summary,
          call, ret, lastLine, event, request>>

(***************************************************************************)
(* Bounds of the model.                                                    *)
(***************************************************************************)
\* completion requests one session may issue
MaxRequests == 3
\* longest toppings / sauces list handed to order_pizza by the pricing harness
MaxItems == 2

(***************************************************************************)
(* Strings.                                                                *)
(***************************************************************************)
None == "<None>"

\* str.lower() on one character (ASCII letters)
LowerChar(c) ==
    CASE c = "A" -> "a" [] c = "B" -> "b" [] c = "C" -> "c" [] c = "D" -> "d"
      [] c = "E" -> "e" [] c = "F" -> "f" [] c = "G" -> "g" [] c = "H" -> "h"
      [] c = "I" -> "i" [] c = "J" -> "j" [] c = "K" -> "k" [] c = "L" -> "l"
      [] c = "M" -> "m" [] c = "N" -> "n" [] c = "O" -> "o" [] c = "P" -> "p"
      [] c = "Q" -> "q" [] c = "R" -> "r" [] c = "S" -> "s" [] c = "T" -> "t"
      [] c = "U" -> "u" [] c = "V" -> "v" [] c = "W" -> "w" [] c = "X" -> "x"
      [] c = "Y" -> "y" [] c = "Z" -> "z" [] OTHER -> c

\* str.lower()
lower(s) == [i \in 1..Len(s) |-> LowerChar(s[i])]

IsSpace(c) == c \in {" ", "\t", "\n"}

RECURSIVE lstrip(_)
lstrip(s) == IF s # <<>> /\ IsSpace(Head(s)) THEN lstrip(Tail(s)) ELSE s

RECURSIVE rstrip(_)
rstrip(s) ==
    IF s # <<>> /\ IsSpace(s[Len(s)]) THEN rstrip(SubSeq(s, 1, Len(s) - 1)) ELSE s

\* str.strip()
strip(s) == rstrip(lstrip(s))

(***************************************************************************)
(* JSON values, as json.loads returns them: a str, a list, a number, null. *)
(***************************************************************************)
\* a str: its characters
JStr(s) == [kind |-> "str", s |-> s, a |-> <<>>]

\* a list of names: its items
JArr(a) == [kind |-> "list", s |-> <<>>, a |-> a]

\* a number
JNum == [kind |-> "int", s |-> <<>>, a |-> <<>>]

\* null
JNull == [kind |-> "NoneType", s |-> <<>>, a |-> <<>>]

\* a list item that is a number, not a str
NumberItem == "<int>"

\* whether Python's len() accepts the value
HasLen(v) == v.kind \in {"str", "list"}

\* len()
len(v) == IF v.kind = "str" THEN Len(v.s) ELSE Len(v.a)

(***************************************************************************)
(* order_pizza (lines 42-56).                                              *)
(***************************************************************************)
small == <<"s", "m", "a", "l", "l">>
medium == <<"m", "e", "d", "i", "u", "m">>
large == <<"l", "a", "r", "g", "e">>
extra_large == <<"e", "x", "t", "r", "a", " ", "l", "a", "r", "g", "e">>

\* the dict of line 43
base_price ==
    [k \in {small, medium, large, extra_large} |->
        CASE k = small -> 5
          [] k = medium -> 7
          [] k = large -> 9
          [] k = extra_large -> 11]

\* dict.get(key, default)
dict_get(d, key, default) == IF key \in DOMAIN d THEN d[key] ELSE default

\* round(price, 2): mills to cents, ties to the even cent
round2(mills) ==
    LET q == mills \div 10
        r == mills % 10
    IN  IF r < 5 THEN q
        ELSE IF r > 5 THEN q + 1
        ELSE IF q % 2 = 0 THEN q ELSE q + 1

\* a mutant of size_key: the size is looked up as typed
size_key_as_typed(size) == size.s

\* the key of the dict lookup of line 44
size_key(size) == lower(size.s)

\* a mutant of surcharge: two or more toppings are charged nothing
surcharge_capped(toppings, sauces) ==
    (IF len(toppings) >= 2 THEN 0 ELSE 750 * len(toppings)) + 500 * len(sauces)

\* the addition of line 45, in mills
surcharge(toppings, sauces) == 750 * len(toppings) + 500 * len(sauces)

NoOrder == [size |-> JNull, crust |-> JNull, toppings |-> JNull, sauces |-> JNull,
            price |-> 0]

NoResult == [exc |-> "", status |-> "", order |-> NoOrder, eta |-> ""]

Raise(e) == [exc |-> e, status |-> "", order |-> NoOrder, eta |-> ""]

\* a mutant of order_result: the order records the normalised size
order_result_lowered(size, crust, toppings, sauces, price) ==
    [exc |-> None,
     status |-> "success",
     order |-> [size |-> JStr(lower(size.s)), crust |-> crust,
                toppings |-> toppings, sauces |-> sauces, price |-> price],
     eta |-> "20 minutes"]

\* the dict returned at lines 46-56
order_result(size, crust, toppings, sauces, price) ==
    [exc |-> None,
     status |-> "success",
     order |-> [size |-> size, crust |-> crust, toppings |-> toppings,
                sauces |-> sauces, price |-> price],
     eta |-> "20 minutes"]

\* order_pizza: the value returned, or the exception raised
order_pizza(size, crust, toppings, sauces) ==
    IF size.kind # "str" THEN Raise("AttributeError")
    ELSE IF ~HasLen(toppings) \/ ~HasLen(sauces) THEN Raise("TypeError")
    ELSE order_result(size, crust, toppings, sauces,
             round2(1000 * dict_get(base_price, size_key(size), 7)
                    + surcharge(toppings, sauces)))

(***************************************************************************)
(* The pricing harness: order_pizza applied to inputs of its declared      *)
(* domain (a size string, a crust string, a list of toppings, a list of    *)
(* sauces).                                                                *)
(***************************************************************************)
thin == <<"t", "h", "i", "n">>
deep_dish == <<"d", "e", "e", "p", " ", "d", "i", "s", "h">>

SizeStrings ==
    {small, medium, large, extra_large,
     <<"S", "M", "A", "L", "L">>, <<"M", "e", "d", "i", "u", "m">>,
     <<"L", "a", "R", "g", "E">>,
     <<"E", "x", "t", "r", "a", " ", "L", "a", "r", "g", "e">>,
     <<"e", "x", "t", "r", "a", "l", "a", "r", "g", "e">>,
     <<" ", "s", "m", "a", "l", "l">>, <<"h", "u", "g", "e">>, <<>>}

CrustStrings == {thin, deep_dish}

ToppingNames == {"pepperoni", "olives"}

SauceNames == {"marinara"}

\* the sequences over S of length at most n
SeqsUpTo(S, n) == UNION {[1..k -> S] : k \in 0..n}

PricingInputs ==
    [size : {JStr(s) : s \in SizeStrings},
     crust : {JStr(s) : s \in CrustStrings},
     toppings : {JArr(a) : a \in SeqsUpTo(ToppingNames, MaxItems)},
     sauces : {JArr(a) : a \in SeqsUpTo(SauceNames, MaxItems)}]

NoCall == [size |-> JNull, crust |-> JNull, toppings |-> JNull, sauces |-> JNull]

NoEvent == [op |-> "init", text |-> FALSE, fc |-> "none"]

NoRequest == [messages |-> <<>>, functions |-> <<>>, function_call |-> ""]

PricingInit ==
    /\ pc = "pricing"
    /\ rawName = <<>>
    /\ name = <<>>
    /\ messages = <<>>
    /\ orders = <<>>
    /\ total = 0
    /\ requests = 0
    /\ summary = <<>>
    /\ call \in PricingInputs
    /\ ret = NoResult
    /\ lastLine = <<>>
    /\ event = NoEvent
    /\ request = NoRequest

session ==
    <<pc, rawName, name, messages, orders, total, requests, summary, lastLine, request>>

\* order_pizza is called on the inputs
Invoke ==
    /\ pc = "pricing"
    /\ ret = NoResult
    /\ ret' = order_pizza(call.size, call.crust, call.toppings, call.sauces)
    /\ event' = [NoEvent EXCEPT !.op = "invoke"]
    /\ UNCHANGED <<session, call>>

\* order_pizza is called again with one more topping
AddTopping ==
    /\ pc = "pricing"
    /\ ret # NoResult
    /\ Len(call.toppings.a) < MaxItems
    /\ \E t \in ToppingNames :
          /\ call' = [call EXCEPT !.toppings = JArr(Append(call.toppings.a, t))]
          /\ ret' = order_pizza(call'.size, call'.crust, call'.toppings, call'.sauces)
    /\ event' = [NoEvent EXCEPT !.op = "add_topping"]
    /\ UNCHANGED session

\* order_pizza is called again with one more sauce
AddSauce ==
    /\ pc = "pricing"
    /\ ret # NoResult
    /\ Len(call.sauces.a) < MaxItems
    /\ \E s \in SauceNames :
          /\ call' = [call EXCEPT !.sauces = JArr(Append(call.sauces.a, s))]
          /\ ret' = order_pizza(call'.size, call'.crust, call'.toppings, call'.sauces)
    /\ event' = [NoEvent EXCEPT !.op = "add_sauce"]
    /\ UNCHANGED session

PricingNext == Invoke \/ AddTopping \/ AddSauce

PricingSpec == PricingInit /\ [][PricingNext]_vars

(***************************************************************************)
(* The session: main() (lines 90-178).                                     *)
(***************************************************************************)
yes == <<"y", "e", "s">>

\* lines the user may type at the name prompt
NameLines == {<<>>, <<" ">>, <<" ", "i", "m", " ", "A", "l", " ">>}

\* lines the user may type at a "{name}: " prompt
UserLines == {<<>>, <<" ", "\t">>, <<" ", "h", "i", " ">>}

\* lines the user may type at the "order another" prompt
ContLines ==
    {yes, <<"Y", "e", "s">>, <<"Y", "E", "S">>, <<" ", "y", "e", "s", "\n">>,
     <<"n", "o">>, <<>>, <<"y", "e", "s", "!">>}

\* what the name-extraction request may come back with
ExtractReplies ==
    {[exc |-> "APIError", content |-> None],
     [exc |-> None, content |-> None],
     [exc |-> None, content |-> <<>>],
     [exc |-> None, content |-> <<" ", "\n">>],
     [exc |-> None, content |-> <<"A", "l", "\n">>]}

\* a message content that is text
Text(s) == [text |-> s, json |-> NoResult]

\* json.dumps(result): the content of a function message
dumps(r) == [text |-> <<>>, json |-> r]

\* the seeded transcript of lines 111-113
SystemMessage ==
    [role |-> "system",
     content |-> Text(<<"p", "i", "z", "z", "a", "-", "o", "r", "d", "e", "r", "i", "n", "g">>)]

\* the names of order_pizza's parameters (line 42)
Params == {"size", "crust", "toppings", "sauces"}

\* a parsed JSON document: what it is, and for an object its keys and the values
\* of the keys order_pizza knows
Doc(kind, keys, size, crust, toppings, sauces) ==
    [kind |-> kind, keys |-> keys, size |-> size, crust |-> crust,
     toppings |-> toppings, sauces |-> sauces]

\* the documents a function call's arguments may parse to
Documents ==
    {Doc("dict", Params, JStr(small), JStr(thin), JArr(<<"pepperoni", "olives">>),
         JArr(<<"marinara">>)),
     Doc("dict", Params, JStr(<<"L", "A", "R", "G", "E">>), JStr(deep_dish),
         JArr(<<>>), JArr(<<>>)),
     Doc("dict", Params, JStr(medium), JStr(thin), JStr(<<"h", "a", "m">>),
         JArr(<<>>)),
     Doc("dict", Params, JStr(extra_large), JStr(thin), JArr(<<NumberItem>>),
         JArr(<<>>)),
     Doc("dict", Params \ {"sauces"}, JStr(small), JStr(thin), JArr(<<>>), JNull),
     Doc("dict", Params \cup {"notes"}, JStr(small), JStr(thin), JArr(<<>>),
         JArr(<<>>)),
     Doc("list", {}, JNull, JNull, JNull, JNull),
     Doc("dict", Params, JNum, JStr(thin), JArr(<<>>), JArr(<<>>)),
     Doc("dict", Params, JStr(small), JStr(thin), JNull, JArr(<<>>))}

\* the arguments text of a function call: well-formed JSON for a document, or not
ArgumentTexts ==
    {[wellFormed |-> TRUE, doc |-> d] : d \in Documents}
        \cup {[wellFormed |-> FALSE, doc |-> Doc("NoneType", {}, JNull, JNull, JNull, JNull)]}

NoArguments == [wellFormed |-> FALSE, doc |-> Doc("", {}, JNull, JNull, JNull, JNull)]

\* what a chat completion may come back with: msg.content and msg.function_call
Responses ==
    [content : {None, <<>>, <<"O", "K">>},
     function_call : {[present |-> FALSE, arguments |-> NoArguments]}
         \cup {[present |-> TRUE, arguments |-> a] : a \in ArgumentTexts}]

\* json.loads (line 145)
json_loads(text) ==
    IF text.wellFormed THEN [exc |-> None, doc |-> text.doc]
    ELSE [exc |-> "JSONDecodeError", doc |-> text.doc]

\* order_pizza(**args) (line 149): the binding of the keys to the parameters,
\* then the call
order_pizza_kwargs(args) ==
    IF args.kind # "dict" \/ args.keys # Params THEN Raise("TypeError")
    ELSE order_pizza(args.size, args.crust, args.toppings, args.sauces)

\* Python truth of msg.content (line 139)
Truthy(content) == content # None /\ content # <<>>

Init ==
    /\ pc = "read_name"
    /\ rawName = <<>>
    /\ name = <<>>
    /\ messages = <<>>
    /\ orders = <<>>
    /\ total = 0
    /\ requests = 0
    /\ summary = <<>>
    /\ call = NoCall
    /\ ret = NoResult
    /\ lastLine = <<>>
    /\ event = NoEvent
    /\ request = NoRequest

Step(op) == [op |-> op, text |-> FALSE, fc |-> "none"]

\* lines 92-95: the name prompt
ReadName ==
    /\ pc = "read_name"
    /\ \E line \in NameLines :
          /\ lastLine' = line
          /\ rawName' = strip(line)
          /\ pc' = IF strip(line) = <<>> THEN "exit_no_name" ELSE "extract_name"
    /\ event' = Step("read_name")
    /\ UNCHANGED <<name, messages, orders, total, requests, summary, call, ret, request>>

\* extract_name (lines 74-87): the name, or the exception raised
extract_name(reply) ==
    IF reply.exc # None THEN [exc |-> "RuntimeError", value |-> <<>>]
    ELSE IF reply.content = None THEN [exc |-> "AttributeError", value |-> <<>>]
    ELSE [exc |-> None, value |-> strip(reply.content)]

\* a mutant of name_or_raw: the raw input is used only when extraction raises
name_or_raw_on_error(extracted, raw) ==
    IF extracted.exc # None THEN raw ELSE extracted.value

\* a mutant of name_or_raw: the extracted name is kept even when it is empty
name_unchecked(extracted, raw) == extracted.value

\* lines 97-107: the name main() goes on with
name_or_raw(extracted, raw) ==
    IF extracted.exc # None THEN raw
    ELSE IF extracted.value = <<>> THEN raw
    ELSE extracted.value

\* lines 97-116: the name is extracted and the session's state is set up
ExtractName ==
    /\ pc = "extract_name"
    /\ \E reply \in ExtractReplies :
          /\ name' = name_or_raw(extract_name(reply), rawName)
          /\ event' = [Step("extract_name") EXCEPT
                          !.fc = IF extract_name(reply).exc # None THEN "failed"
                                 ELSE IF extract_name(reply).value = <<>> THEN "empty"
                                 ELSE "none"]
    /\ messages' = <<SystemMessage>>
    /\ orders' = <<>>
    /\ total' = 0
    /\ pc' = "read_msg"
    /\ UNCHANGED <<rawName, requests, summary, call, ret, lastLine, request>>

\* lines 119-122: the first prompt of a pizza
ReadMsg ==
    /\ pc = "read_msg"
    /\ \E line \in UserLines :
          /\ lastLine' = line
          /\ IF strip(line) = <<>>
             THEN /\ pc' = "read_msg"
                  /\ messages' = messages
             ELSE /\ pc' = "completion"
                  /\ messages' = Append(messages,
                                     [role |-> "user", content |-> Text(strip(line))])
    /\ event' = Step("read_msg")
    /\ UNCHANGED <<rawName, name, orders, total, requests, summary, call, ret, request>>

\* the function schema of lines 58-71
order_tool ==
    [name |-> "order_pizza",
     required |-> <<"size", "crust", "toppings", "sauces">>,
     properties |-> [size |-> "string", crust |-> "string",
                     toppings |-> "array of string", sauces |-> "array of string"]]

\* a mutant of completion_request: only the newest message is sent
completion_request_newest(msgs) ==
    [messages |-> SubSeq(msgs, Len(msgs), Len(msgs)),
     functions |-> <<order_tool>>,
     function_call |-> "auto"]

\* lines 126-131: the request the negotiation loop sends
completion_request(msgs) ==
    [messages |-> msgs, functions |-> <<order_tool>>, function_call |-> "auto"]

\* a mutant of on_api_error: the inner loop is left and the session goes on
on_api_error_break == "read_cont"

\* lines 132-134: where main() goes when the completion request raises
on_api_error == "exit_api_error"

\* lines 125-134: the completion request raises
CompletionFails ==
    /\ pc = "completion"
    /\ requests < MaxRequests
    /\ requests' = requests + 1
    /\ request' = completion_request(messages)
    /\ pc' = on_api_error
    /\ event' = Step("api_error")
    /\ UNCHANGED <<rawName, name, messages, orders, total, summary, call, ret, lastLine>>

\* a mutant of WithText: the transcript is started afresh with the text
WithTextAfresh(msgs, content) ==
    IF Truthy(content)
    THEN <<SystemMessage, [role |-> "assistant", content |-> Text(content)]>>
    ELSE msgs

\* lines 139-141: the transcript after the response's text
WithText(msgs, content) ==
    IF Truthy(content)
    THEN Append(msgs, [role |-> "assistant", content |-> Text(content)])
    ELSE msgs

\* a mutant of new_total: the total is assigned, not added to
new_total_assigned(sum, order) == order.price

\* line 153: total += result["order"]["price"]
new_total(sum, order) == sum + order.price

\* a mutant of on_parse_error: the session is left
on_parse_error_return == "exit_api_error"

\* a mutant of on_parse_error: the request is tried again
on_parse_error_retry == "completion"

\* lines 146-148: where main() goes when the arguments do not parse
on_parse_error == "read_cont"

\* a mutant of on_no_call: the inner loop is left
on_no_call_break == "read_cont"

\* lines 143 and 161: where main() goes after a response without a function call
on_no_call == "read_followup"

\* lines 125-164: the completion request returns a response
Respond ==
    /\ pc = "completion"
    /\ requests < MaxRequests
    /\ requests' = requests + 1
    /\ request' = completion_request(messages)
    /\ \E resp \in Responses :
          LET msgs == WithText(messages, resp.content)
              parsed == json_loads(resp.function_call.arguments)
              result == order_pizza_kwargs(parsed.doc)
              ev == [op |-> "response", text |-> Truthy(resp.content), fc |-> "none"]
          IN  IF ~resp.function_call.present
              THEN /\ messages' = msgs
                   /\ pc' = on_no_call
                   /\ event' = ev
                   /\ UNCHANGED <<orders, total, call, ret>>
              ELSE IF parsed.exc # None
              THEN /\ messages' = msgs
                   /\ pc' = on_parse_error
                   /\ event' = [ev EXCEPT !.fc = "malformed"]
                   /\ UNCHANGED <<orders, total, call, ret>>
              ELSE /\ event' = [ev EXCEPT !.fc = "parsed"]
                   /\ call' = [size |-> parsed.doc.size, crust |-> parsed.doc.crust,
                               toppings |-> parsed.doc.toppings,
                               sauces |-> parsed.doc.sauces]
                   /\ ret' = result
                   /\ IF result.exc # None
                      THEN /\ messages' = msgs
                           /\ pc' = "crashed"
                           /\ UNCHANGED <<orders, total>>
                      ELSE /\ orders' = Append(orders, result.order)
                           /\ total' = new_total(total, result.order)
                           /\ messages' = Append(msgs,
                                  [role |-> "function", content |-> dumps(result)])
                           /\ pc' = "read_cont"
    /\ UNCHANGED <<rawName, name, summary, lastLine>>

\* lines 161-164: the follow-up prompt after a response without a function call
ReadFollowup ==
    /\ pc = "read_followup"
    /\ \E line \in UserLines :
          /\ lastLine' = line
          /\ messages' = IF strip(line) = <<>> THEN messages
                         ELSE Append(messages,
                                  [role |-> "user", content |-> Text(strip(line))])
    /\ pc' = "completion"
    /\ event' = Step("read_followup")
    /\ UNCHANGED <<rawName, name, orders, total, requests, summary, call, ret, request>>

\* a mutant of cont: the answer is compared as typed
cont_as_typed(line) == line

\* line 166: the answer that is compared with "yes"
cont(line) == lower(strip(line))

\* lines 166-168: the "order another" prompt
ReadCont ==
    /\ pc = "read_cont"
    /\ \E line \in ContLines :
          /\ lastLine' = line
          /\ pc' = IF cont(line) # yes THEN "summary" ELSE "read_msg"
    /\ event' = Step("read_cont")
    /\ UNCHANGED <<rawName, name, messages, orders, total, requests, summary, call, ret,
                   request>>

\* whether ', '.join() accepts the value: a str, or a list of str
Joinable(v) == v.kind = "str" \/ \A i \in 1..Len(v.a) : v.a[i] # NumberItem

\* whether lines 172-175 print the order without raising
Printable(o) == Joinable(o.toppings) /\ Joinable(o.sauces)

\* the orders before the first one that lines 172-175 cannot print
RECURSIVE PrintedOrders(_)
PrintedOrders(os) ==
    IF os = <<>> \/ ~Printable(Head(os)) THEN <<>>
    ELSE <<Head(os)>> \o PrintedOrders(Tail(os))

\* lines 170-178: what the summary prints, and whether it reaches the total
print_summary(os, sum) ==
    IF PrintedOrders(os) = os
    THEN [exc |-> None, orders |-> os, total |-> sum, complete |-> TRUE]
    ELSE [exc |-> "TypeError", orders |-> PrintedOrders(os), total |-> 0,
          complete |-> FALSE]

\* lines 170-178: the final summary
PrintSummary ==
    /\ pc = "summary"
    /\ summary' = <<[orders |-> print_summary(orders, total).orders,
                     total |-> print_summary(orders, total).total,
                     complete |-> print_summary(orders, total).complete]>>
    /\ pc' = IF print_summary(orders, total).exc = None THEN "exit_done" ELSE "crashed"
    /\ event' = Step("summary")
    /\ UNCHANGED <<rawName, name, messages, orders, total, requests, call, ret, lastLine,
                   request>>

Next ==
    \/ ReadName
    \/ ExtractName
    \/ ReadMsg
    \/ CompletionFails
    \/ Respond
    \/ ReadFollowup
    \/ ReadCont
    \/ PrintSummary

Spec == Init /\ [][Next]_vars

(***************************************************************************)
(* Properties.                                                             *)
(***************************************************************************)
\* the two letter cases of each letter
CasePairs ==
    {<<"a", "A">>, <<"b", "B">>, <<"c", "C">>, <<"d", "D">>, <<"e", "E">>,
     <<"f", "F">>, <<"g", "G">>, <<"h", "H">>, <<"i", "I">>, <<"j", "J">>,
     <<"k", "K">>, <<"l", "L">>, <<"m", "M">>, <<"n", "N">>, <<"o", "O">>,
     <<"p", "P">>, <<"q", "Q">>, <<"r", "R">>, <<"s", "S">>, <<"t", "T">>,
     <<"u", "U">>, <<"v", "V">>, <<"w", "W">>, <<"x", "X">>, <<"y", "Y">>,
     <<"z", "Z">>}

SameLetter(a, b) == a = b \/ <<a, b>> \in CasePairs \/ <<b, a>> \in CasePairs

\* s and t are the same string up to letter case
SameIgnoringCase(s, t) ==
    Len(s) = Len(t) /\ \A i \in 1..Len(s) : SameLetter(s[i], t[i])

\* the base price the specification gives a size, in cents
ExpectedBaseCents(s) ==
    IF SameIgnoringCase(s, small) THEN 500
    ELSE IF SameIgnoringCase(s, medium) THEN 700
    ELSE IF SameIgnoringCase(s, large) THEN 900
    ELSE IF SameIgnoringCase(s, extra_large) THEN 1100
    ELSE 700

\* C1: for every size string, crust string, list of toppings and list of sauces
\* the price order_pizza returns is the base price of the size (500, 700, 900,
\* 1100 cents for small, medium, large, extra large in any letter case, 700 for
\* every other string) plus 75 cents a topping plus 50 cents a sauce.
C1_PriceFormula ==
    ret # NoResult =>
        ret.order.price = ExpectedBaseCents(call.size.s)
                              + 75 * Len(call.toppings.a) + 50 * Len(call.sauces.a)

C1_Witness ==
    /\ pc = "pricing"
    /\ call.size.s = <<"L", "a", "R", "g", "E">>
    /\ Len(call.toppings.a) = 2
    /\ Len(call.sauces.a) = 1
    /\ ret.order.price = 1100

RECURSIVE SumPrices(_)
SumPrices(os) == IF os = <<>> THEN 0 ELSE Head(os).price + SumPrices(Tail(os))

IsFunctionMessage(m) == m.role = "function"

\* the orders of the function-result messages of a transcript, in transcript order
PlacedOrders(msgs) ==
    LET fs == SelectSeq(msgs, IsFunctionMessage)
    IN  [i \in 1..Len(fs) |-> fs[i].content.json.order]

\* C2: in every state of a session the running total is the sum of the prices
\* of the orders in the order list, and the order list holds exactly the orders
\* that were placed, in the order of their placement.
C2_TotalIsSum ==
    /\ total = SumPrices(orders)
    /\ orders = PlacedOrders(messages)

C2_Witness ==
    /\ Len(orders) = 2
    /\ orders[1].price = 700
    /\ orders[2].price = 900
    /\ total = 1600

\* C3: at both prompts of the negotiation loop an empty line (after trimming)
\* is not appended to the transcript and advances nothing: the session stays
\* at the prompt, and transcript, orders, total and the number of requests are
\* unchanged.
C3_EmptyLineStaysAtPrompt ==
    [][(pc \in {"read_msg", "read_followup"} /\ strip(lastLine') = <<>>)
          => (pc' = pc /\ UNCHANGED <<messages, orders, total, requests>>)]_vars

CountFunctionMessages(msgs) == Len(SelectSeq(msgs, IsFunctionMessage))

\* C4: whenever a response holds a function call whose arguments parse, one
\* order is appended to the orders, one function-result message is appended to
\* the transcript and the session goes on to the "order another" prompt,
\* whatever the parsed document holds.
C4_ParsedCallPlacesOrder ==
    [][(pc = "completion" /\ event'.op = "response" /\ event'.fc = "parsed")
          => /\ Len(orders') = Len(orders) + 1
             /\ CountFunctionMessages(messages') = CountFunctionMessages(messages) + 1
             /\ pc' = "read_cont"]_vars

\* C5: when a response holds a function call whose arguments do not parse, the
\* session goes on: no order is recorded and the next step is the "order
\* another" prompt.
C5_ParseErrorGoesOn ==
    [][(pc = "completion" /\ event'.op = "response" /\ event'.fc = "malformed")
          => /\ pc' = "read_cont"
             /\ UNCHANGED <<orders, total>>
             /\ CountFunctionMessages(messages') = CountFunctionMessages(messages)]_vars

C5_Witness ==
    /\ pc = "read_cont"
    /\ event.op = "response"
    /\ event.fc = "malformed"
    /\ Len(orders) = 1

\* C6: an error raised by a completion request of the negotiation loop ends the
\* session at once: nothing is prompted or requested afterwards and the summary
\* is not printed, however many orders were placed.
C6_ApiErrorEndsSession ==
    [][/\ (pc = "completion" /\ event'.op = "api_error")
            => (pc' = "exit_api_error" /\ summary' = <<>>
                    /\ UNCHANGED <<messages, orders, total>>)
       /\ pc = "exit_api_error" => FALSE]_vars

C6_Witness ==
    /\ pc = "exit_api_error"
    /\ event.op = "api_error"
    /\ Len(orders) = 1
    /\ summary = <<>>

\* C7: when the name-extraction request fails, the session goes on to the
\* negotiation loop with the trimmed raw input as the name.
C7_ExtractionFailureFallsBack ==
    [][(pc = "extract_name" /\ event'.op = "extract_name" /\ event'.fc = "failed")
          => (pc' = "read_msg" /\ name' = strip(lastLine) /\ name' # <<>>)]_vars

C7_Witness ==
    /\ pc = "read_msg"
    /\ event.op = "extract_name"
    /\ event.fc = "failed"
    /\ name = <<"i", "m", " ", "A", "l">>

\* C8, as the specification states it: at the "order another" prompt only the
\* answer that is "yes" letter for letter re-enters the negotiation loop; every
\* other answer ends the session.
C8_OnlyExactYes ==
    [][pc = "read_cont"
          => (IF lastLine' = yes THEN pc' = "read_msg" ELSE pc' = "summary")]_vars

\* the line is "yes" in any letter case, between any leading and trailing spaces
IsYesAnswer(line) ==
    \E i \in 1..Len(line) :
        /\ i + 2 <= Len(line)
        /\ SameIgnoringCase(SubSeq(line, i, i + 2), yes)
        /\ \A j \in 1..Len(line) : (j < i \/ j > i + 2) => IsSpace(line[j])

\* C8, amended: at the "order another" prompt an answer re-enters the
\* negotiation loop exactly when, trimmed and without regard to letter case,
\* it is "yes"; every other answer ends the session.
C8_YesIgnoringCase ==
    [][pc = "read_cont"
          => (IF IsYesAnswer(lastLine') THEN pc' = "read_msg" ELSE pc' = "summary")]_vars

C8_Witness ==
    /\ pc = "read_msg"
    /\ event.op = "read_cont"
    /\ lastLine = <<"Y", "E", "S">>

\* C9: on a size string, a crust string, a list of toppings and a list of
\* sauces order_pizza raises nothing and returns status "success", ETA
\* "20 minutes" and an order that carries the four arguments unchanged.
C9_TotalAndEchoes ==
    ret # NoResult =>
        /\ ret.exc = None
        /\ ret.status = "success"
        /\ ret.eta = "20 minutes"
        /\ ret.order.size = call.size
        /\ ret.order.crust = call.crust
        /\ ret.order.toppings = call.toppings
        /\ ret.order.sauces = call.sauces

C9_Witness ==
    /\ pc = "pricing"
    /\ ret.status = "success"
    /\ call.size.s = <<"S", "M", "A", "L", "L">>
    /\ ret.order.size.s = <<"S", "M", "A", "L", "L">>
    /\ call.crust.s = deep_dish
    /\ call.toppings.a = <<>>

\* C10: with size and crust fixed, the price does not decrease when a topping
\* or a sauce is added.
C10_PriceMonotone ==
    [][(ret # NoResult /\ ret' # NoResult
            /\ call'.size = call.size /\ call'.crust = call.crust)
          => ret'.order.price >= ret.order.price]_vars

C10_Witness ==
    /\ pc = "pricing"
    /\ event.op = "add_topping"
    /\ call.size.s = small
    /\ Len(call.toppings.a) = 2
    /\ Len(call.sauces.a) = 1
    /\ ret.order.price = 700

\* the elements of a sequence
Range(s) == {s[i] : i \in 1..Len(s)}

\* the latest request carries the transcript msgs and offers, for automatic
\* selection, exactly one function, named fname, with the four required fields
RequestIs(req, msgs, fname) ==
    /\ req.messages = msgs
    /\ Len(req.functions) = 1
    /\ req.functions[1].name = fname
    /\ Range(req.functions[1].required) = {"size", "crust", "toppings", "sauces"}
    /\ req.function_call = "auto"

\* C11, as the specification states it: every completion request of the
\* negotiation loop carries the whole transcript and offers exactly one
\* function, named "place_order", with required fields size, crust, toppings
\* and sauces, selected automatically.
C11_RequestOffersPlaceOrder ==
    [][requests' = requests + 1 => RequestIs(request', messages, "place_order")]_vars

\* C11, amended: every completion request of the negotiation loop carries the
\* whole transcript and offers exactly one function, named "order_pizza", with
\* required fields size, crust, toppings and sauces, selected automatically.
C11_RequestOffersOrderPizza ==
    [][requests' = requests + 1 => RequestIs(request', messages, "order_pizza")]_vars

C11_Witness ==
    /\ requests = 2
    /\ Len(request.messages) = 4
    /\ request.messages[4].role = "user"
    /\ request.messages[3].role = "function"
    /\ request.functions[1].name = "order_pizza"

\* s is an initial part of t
IsPrefix(s, t) == Len(s) <= Len(t) /\ SubSeq(t, 1, Len(s)) = s

\* C12: every step of a session leaves the transcript as it was or appends to
\* it, the transcript starts with the one system message, and the answer "yes"
\* to "order another" does not clear or shorten it.
C12_TranscriptAppendOnly ==
    [][/\ IsPrefix(messages, messages')
       /\ messages' # <<>> =>
              /\ messages'[1] = SystemMessage
              /\ \A i \in 2..Len(messages') : messages'[i].role # "system"
       /\ pc = "read_cont" => messages' = messages]_vars

C12_Witness ==
    /\ pc = "completion"
    /\ requests = 1
    /\ Len(messages) = 5
    /\ messages[1] = SystemMessage
    /\ messages[3].role = "assistant"
    /\ messages[4].role = "function"
    /\ messages[5].role = "user"

\* C13: a function call whose arguments do not parse leaves orders and total
\* unchanged and adds no function-result message to the transcript (at most
\* the response's text is appended), and it is not retried: the failed request
\* is the only one before the "order another" prompt.
C13_ParseErrorFrame ==
    [][(pc = "completion" /\ event'.op = "response" /\ event'.fc = "malformed")
          => /\ orders' = orders
             /\ total' = total
             /\ \/ messages' = messages
                \/ /\ Len(messages') = Len(messages) + 1
                   /\ IsPrefix(messages, messages')
                   /\ messages'[Len(messages')].role = "assistant"
             /\ requests' = requests + 1
             /\ pc' = "read_cont"]_vars

C13_Witness ==
    /\ pc = "read_cont"
    /\ event = [op |-> "response", text |-> TRUE, fc |-> "malformed"]
    /\ requests = 1
    /\ orders = <<>>
    /\ total = 0
    /\ Len(messages) = 3
    /\ messages[3].role = "assistant"

\* C14: a response with text and no function call appends one assistant
\* message, leaves orders and total unchanged and is followed by the follow-up
\* prompt; a response with text and a function call whose arguments parse
\* appends the assistant message, places the order and appends the
\* function-result message after the assistant message, in the same step.
C14_TextThenCall ==
    [][(pc = "completion" /\ event'.op = "response" /\ event'.text)
          => /\ event'.fc = "none" =>
                    /\ Len(messages') = Len(messages) + 1
                    /\ IsPrefix(messages, messages')
                    /\ messages'[Len(messages')].role = "assistant"
                    /\ orders' = orders
                    /\ total' = total
                    /\ pc' = "read_followup"
             /\ event'.fc = "parsed" =>
                    /\ Len(messages') = Len(messages) + 2
                    /\ IsPrefix(messages, messages')
                    /\ messages'[Len(messages) + 1].role = "assistant"
                    /\ messages'[Len(messages) + 2].role = "function"
                    /\ Len(orders') = Len(orders) + 1]_vars

\* C15: in every state the transcript holds as many function-result messages
\* as there are orders; the order list only grows, by one order at a time, and
\* it grows exactly in the steps that receive a function call whose arguments
\* parse.
C15_OneOrderPerParsedCall ==
    [][/\ CountFunctionMessages(messages') = Len(orders')
       /\ IsPrefix(orders, orders')
       /\ Len(orders') <= Len(orders) + 1
       /\ (pc = "completion" /\ event'.op = "response" /\ event'.fc = "parsed")
              <=> Len(orders') = Len(orders) + 1]_vars

\* C16: the summary is printed exactly when the session reaches SessionEnd:
\* only after an answer other than "yes" at the "order another" prompt, once,
\* with the orders and the total accumulated by then; it is not printed on the
\* empty-name exit nor after a fatal completion error.
C16_SummaryAtSessionEnd ==
    [][/\ pc = "summary" =>
              /\ pc' = "exit_done"
              /\ summary' = <<[orders |-> orders, total |-> total, complete |-> TRUE]>>
       /\ summary' # summary => (pc = "summary" /\ summary = <<>>)
       /\ (pc' = "summary" /\ pc # "summary") =>
              (pc = "read_cont" /\ ~IsYesAnswer(lastLine'))
       /\ pc' \in {"exit_no_name", "exit_api_error"} => summary' = <<>>]_vars

\* C17: the "order another" prompt is reached only by the step that receives
\* a response with a function call (parsed or not), and SessionEnd only from
\* that prompt: no line typed at a negotiation prompt and no response without
\* a function call leads there.
C17_PromptOnlyAfterCall ==
    [][/\ (pc' = "read_cont" /\ pc # "read_cont") =>
              /\ pc = "completion"
              /\ event'.op = "response"
              /\ event'.fc \in {"parsed", "malformed"}
       /\ (pc' = "summary" /\ pc # "summary") => pc = "read_cont"
       /\ pc \in {"read_msg", "read_followup"} =>
              pc' \in {"read_msg", "read_followup", "completion"}
       /\ (pc = "completion" /\ event'.op = "response" /\ event'.fc = "none") =>
              pc' = "read_followup"]_vars

C17_Witness ==
    /\ pc = "read_cont"
    /\ requests = 2
    /\ event.fc = "parsed"
    /\ Len(messages) = 5
    /\ messages[3].role = "assistant"
    /\ messages[4].role = "user"
    /\ messages[5].role = "function"

InLoop == pc \in {"read_msg", "completion", "read_followup", "read_cont"}

\* C18: whenever the session is in the negotiation loop the name is not
\* empty; a name line that is empty after trimming ends the session before any
\* request is issued; and when extraction fails or extracts an empty name, the
\* name is the trimmed line typed at the name prompt.
C18_NameNonEmpty ==
    /\ InLoop => name # <<>>
    /\ (event.op = "read_name" /\ strip(lastLine) = <<>>) =>
           (pc = "exit_no_name" /\ requests = 0 /\ request = NoRequest /\ messages = <<>>)
    /\ pc = "exit_no_name" => (event.op = "read_name" /\ strip(lastLine) = <<>>)
    /\ (event.op = "extract_name" /\ event.fc \in {"failed", "empty"}) =>
           (pc = "read_msg" /\ name = strip(lastLine))

C18_Witness ==
    /\ pc = "read_msg"
    /\ event.op = "extract_name"
    /\ event.fc = "empty"
    /\ name = <<"i", "m", " ", "A", "l">>
    /\ lastLine = <<" ", "i", "m", " ", "A", "l", " ">>

====
